---------------------------- MODULE Spec2Model ----------------------------
(***************************************************************************)
(* A model of scripts/stable_txt2img.py: the prompt-directive parser, the  *)
(* safety-bounded generation loop and the output bookkeeping of main().    *)
(*                                                                         *)
(* Text is modelled as sequences of one-character strings, so that         *)
(* str.split, int() and the f-string file names are computed, not assumed. *)
(* The diffusion sampler, the decoder and the safety classifier are        *)
(* external: one attempt yields a batch of n_samples images, and for each  *)
(* image the classifier's verdict is an arbitrary boolean.                 *)
(* Guidance scales are kept in tenths (7.5 is 75) to stay in the integers. *)
(***************************************************************************)
EXTENDS Integers, Sequences, FiniteSets, TLC

(***************************************************************************)
(* Bounds of the exploration                                               *)
(***************************************************************************)
\* opt.n_iter ranges over 0..MaxIter
MaxIter == 2
\* opt.n_samples (the batch size) ranges over 1..MaxBatch
MaxBatch == 2
\* the script is invoked at most MaxRuns times on the same output directory
MaxRuns == 2
\* random.randint(min_seed_value, max_seed_value) draws from 0..MaxRandomSeed
MaxRandomSeed == 1

(***************************************************************************)
(* Program constants                                                       *)
(***************************************************************************)
min_seed_value == 0
maxNotSafeForWorkTries == 10
\* --scale default 7.5, in tenths
DefaultScale == 75
\* --ddim_steps default
DefaultDdimSteps == 50

(***************************************************************************)
(* Python values                                                           *)
(***************************************************************************)
\* None: a one-element tuple that no text equals (characters are one letter)
None == <<"None">>

DigitChars == <<"0", "1", "2", "3", "4", "5", "6", "7", "8", "9">>

IsDigit(c) == \E d \in 1..10 : DigitChars[d] = c

DigitVal(c) == (CHOOSE d \in 1..10 : DigitChars[d] = c) - 1

RECURSIVE DigitsValue(_)
DigitsValue(s) ==
    IF Len(s) = 0 THEN 0
    ELSE 10 * DigitsValue(SubSeq(s, 1, Len(s) - 1)) + DigitVal(s[Len(s)])

\* int(s) on texts over the model's alphabet (digits, letters, ".", "#"):
\* a non-empty run of digits is its decimal value, anything else raises
\* ValueError.
PyInt(s) ==
    IF Len(s) > 0 /\ \A k \in 1..Len(s) : IsDigit(s[k])
    THEN [ok |-> TRUE, val |-> DigitsValue(s)]
    ELSE [ok |-> FALSE, val |-> 0]

\* str(n) for n >= 0
RECURSIVE PyStr(_)
PyStr(n) ==
    IF n < 10 THEN <<DigitChars[n + 1]>>
    ELSE PyStr(n \div 10) \o <<DigitChars[(n % 10) + 1]>>

\* format(n, "0w"): zero-padded to at least w characters
ZeroPad(n, w) ==
    LET s == PyStr(n)
    IN  IF Len(s) >= w THEN s ELSE [k \in 1..(w - Len(s)) |-> "0"] \o s

Delimiter == <<"#", "#", "#", "#", "#", "#">>

\* the least index >= from at which Delimiter occurs in s, or 0
FindDelimiter(s, from) ==
    LET hits == {j \in from..(Len(s) - Len(Delimiter) + 1) :
                    SubSeq(s, j, j + Len(Delimiter) - 1) = Delimiter}
    IN  IF hits = {} THEN 0 ELSE CHOOSE j \in hits : \A h \in hits : j <= h

\* the fields of s from index `from` on: leftmost, non-overlapping
\* occurrences of the delimiter
RECURSIVE PySplitFrom(_, _)
PySplitFrom(s, from) ==
    LET j == FindDelimiter(s, from)
    IN  IF j = 0 THEN <<SubSeq(s, from, Len(s))>>
        ELSE <<SubSeq(s, from, j - 1)>> \o PySplitFrom(s, j + Len(Delimiter))

\* promptLine.split("######")
PySplit(s) == PySplitFrom(s, 1)

\* list(chunk(lines, size)): tuples of size lines, the last one shorter
RECURSIVE chunk(_, _)
chunk(it, size) ==
    IF Len(it) = 0 THEN <<>>
    ELSE IF Len(it) <= size THEN <<it>>
    ELSE <<SubSeq(it, 1, size)>> \o chunk(SubSeq(it, size + 1, Len(it)), size)

(***************************************************************************)
(* PromptDirectiveParser: main(), lines 317-344                            *)
(***************************************************************************)
\* promptSplit[k] with the source's 0-based index
Field(promptSplit, k) == promptSplit[k + 1]

\* fault: only empty lines are skipped
IsSkippedEmptyOnly(promptLine) == Len(promptLine) = 0

\* line 319: empty lines and comments are skipped
IsSkippedLine(promptLine) ==
    IF Len(promptLine) = 0 THEN TRUE ELSE promptLine[1] = "#"

\* line 324: fewer than 5 fields is the backwards-compatible raw prompt
IsRawLine(promptLine) == Len(PySplit(promptLine)) < 5

\* lines 336-339: [ok, val]; ok = FALSE is the ValueError of int()
ScaleOverride(promptSplit, opt) ==
    IF Field(promptSplit, 2) = None \/ Len(Field(promptSplit, 2)) = 0
    THEN [ok |-> TRUE, val |-> opt.scale]
    ELSE LET r == PyInt(Field(promptSplit, 2))
         IN  [ok |-> r.ok, val |-> 10 * r.val]

\* fault: the steps override is guarded by the emptiness of the scale field
StepsOverrideByScale(promptSplit, opt) ==
    IF Field(promptSplit, 2) = None \/ Len(Field(promptSplit, 2)) = 0
    THEN [ok |-> TRUE, val |-> opt.ddim_steps]
    ELSE PyInt(Field(promptSplit, 3))

\* lines 340-343: the guard tests field 2 for None and field 3 for emptiness
StepsOverride(promptSplit, opt) ==
    IF Field(promptSplit, 2) = None \/ Len(Field(promptSplit, 3)) = 0
    THEN [ok |-> TRUE, val |-> opt.ddim_steps]
    ELSE PyInt(Field(promptSplit, 3))

\* fault: the raw prompt is cut at the first delimiter
RawPromptFirstField(promptLine) == PySplit(promptLine)[1]

\* line 331: the raw prompt is the whole line
RawPromptString(promptLine) == promptLine

\* lines 322-344 for a line that is not skipped: the request, or the
\* exception that leaves main()
ParsePromptLine(promptLine, opt) ==
    LET promptSplit == PySplit(promptLine)
    IN  IF Len(promptSplit) < 5
        THEN [error           |-> "none",
              promptId        |-> <<"0", "0", "0">>,
              promptSeed      |-> None,
              promptScale     |-> opt.scale,
              promptDdimSteps |-> opt.ddim_steps,
              promptString    |-> RawPromptString(promptLine)]
        ELSE LET scale == ScaleOverride(promptSplit, opt)
                 steps == StepsOverride(promptSplit, opt)
             IN  [error           |-> IF scale.ok /\ steps.ok THEN "none"
                                      ELSE "ValueError",
                  promptId        |-> Field(promptSplit, 0),
                  promptSeed      |-> Field(promptSplit, 1),
                  promptScale     |-> scale.val,
                  promptDdimSteps |-> steps.val,
                  promptString    |-> Field(promptSplit, 4)]

(***************************************************************************)
(* Inputs: prompt lines, prompt files and command lines                    *)
(***************************************************************************)
\* a directive line written from its five fields
Directive(id, seed, scale, steps, text) ==
    id \o Delimiter \o seed \o Delimiter \o scale \o Delimiter
       \o steps \o Delimiter \o text

EmptyLine == <<>>
CommentLine == <<"#", "c">>
RawLine == <<"f", "o", "x">>
FixedSeedLine == Directive(<<"7">>, <<"1">>, <<>>, <<"2", "0">>, <<"f">>)
RandomSeedLine == Directive(<<"8">>, <<>>, <<"3">>, <<>>, <<"g">>)
BadSeedLine == Directive(<<"9">>, <<"x">>, <<>>, <<>>, <<"h">>)
BadScaleLine == Directive(<<"9">>, <<"1">>, <<"a">>, <<>>, <<"h">>)
BadStepsLine == Directive(<<"9">>, <<"1">>, <<>>, <<"b">>, <<"h">>)
DecimalScaleLine == Directive(<<"9">>, <<"1">>, <<"7", ".", "5">>, <<>>, <<"h">>)

\* the prompt files explored (--from-file)
PromptFiles ==
    { <<>>,
      <<FixedSeedLine, RandomSeedLine>>,
      <<CommentLine, RawLine, EmptyLine>>,
      <<BadScaleLine, FixedSeedLine>>,
      <<BadSeedLine, RawLine>>,
      <<DecimalScaleLine, RawLine>>,
      <<BadStepsLine, FixedSeedLine>> }

\* the single prompts explored (--prompt)
Prompts == {RawLine, FixedSeedLine}

CommandLines ==
    [n_iter     : 0..MaxIter,
     n_samples  : 1..MaxBatch,
     skip_grid  : BOOLEAN,
     skip_save  : BOOLEAN,
     fixed_code : {FALSE},
     scale      : {DefaultScale},
     ddim_steps : {DefaultDdimSteps},
     from_file  : {TRUE},
     prompt     : {RawLine},
     lines      : PromptFiles]
    \cup
    [n_iter     : 0..MaxIter,
     n_samples  : 1..MaxBatch,
     skip_grid  : BOOLEAN,
     skip_save  : BOOLEAN,
     fixed_code : {FALSE},
     scale      : {DefaultScale},
     ddim_steps : {DefaultDdimSteps},
     from_file  : {FALSE},
     prompt     : Prompts,
     lines      : {<<>>}]

\* fields joined by the delimiter
RECURSIVE JoinFields(_)
JoinFields(fields) ==
    IF Len(fields) = 1 THEN fields[1]
    ELSE fields[1] \o Delimiter \o JoinFields(Tail(fields))

\* the field texts of the lines given to the parser alone
IdFields == {<<"7">>, <<>>}
SeedFields == {<<>>, <<"1">>, <<"x">>}
ScaleFields == {<<>>, <<"3">>, <<"7", ".", "5">>, <<"a">>}
StepsFields == {<<>>, <<"2", "0">>, <<"5", "0">>, <<"b">>}
TextFields == {<<"f">>, <<>>}
ShortFields == {<<>>, <<"a">>, <<"1", "#">>}

\* every 5-field line over these fields
DirectiveLines ==
    {Directive(i, s, c, t, p) :
        i \in IdFields, s \in SeedFields, c \in ScaleFields,
        t \in StepsFields, p \in TextFields}

\* every line of 1 to 4 fields over the short fields
ShortLines ==
    {JoinFields(fields) : fields \in UNION {[1..k -> ShortFields] : k \in 1..4}}

ParseLines == DirectiveLines \cup ShortLines \cup {CommentLine}

\* command lines whose prompt file is one line
ParseCommandLines ==
    [n_iter     : {1},
     n_samples  : {1},
     skip_grid  : {FALSE},
     skip_save  : {FALSE},
     fixed_code : {FALSE},
     scale      : {DefaultScale},
     ddim_steps : {DefaultDdimSteps},
     from_file  : {TRUE},
     prompt     : {RawLine},
     lines      : {<<line>> : line \in ParseLines}]

(***************************************************************************)
(* External collaborators                                                  *)
(***************************************************************************)
\* sampler.sample + model.decode_first_stage (lines 374-387): a batch of
\* n images for slot `slot` of prompt group `g`; nsfw[i] is what the safety
\* checker will say of image i
DecodedBatch(g, slot, pixels, nsfw) ==
    [i \in DOMAIN nsfw |-> [group |-> g, slot |-> slot, index |-> i,
                            pixels |-> pixels, nsfw |-> nsfw[i]]]

\* torch.randn(...) drawn while the generators are seeded with `seed`
\* (lines 261 and 302, and the sampler's own draw when x_T is None)
Randn(seed) == <<"r">> \o PyStr(seed)

\* line 381, x_T=start_code: the sampler starts from the start code, or
\* from noise of its own when there is none
InitialNoise(code, seed) == IF code = None THEN Randn(seed) ELSE code

\* lines 374-387: what the pixels of a batch are computed from (eta is 0,
\* so nothing else is drawn)
Pixels(x_T, c, scale, steps) ==
    [x_T |-> x_T, c |-> c, scale |-> scale, steps |-> steps]

\* fault: only the first image's flag is looked at
is_not_safe_first_only(x_image) == x_image[1].nsfw

\* lines 99-112: TRUE as soon as one image of the batch is flagged
is_not_safe_for_work_image(x_image) ==
    \E i \in DOMAIN x_image : x_image[i].nsfw

\* random.randint(min_seed_value, max_seed_value), line 38
RandomSeeds == min_seed_value..MaxRandomSeed

(***************************************************************************)
(* File names                                                              *)
(***************************************************************************)
PngSuffix == <<".", "p", "n", "g">>

\* fault: the newest batch is put first
KeepForGridFirst(samples, batch) == <<batch>> \o samples

\* line 410: all_samples.append(x_checked_image_torch)
KeepForGrid(samples, batch) == Append(samples, batch)

\* the "samples" entry of os.listdir(outpath)
SamplesEntry == <<"s", "a", "m", "p", "l", "e", "s">>

\* line 405: f"{promptId}_{used_seed}_{base_count:05}.png"
ImageName(id, seed, count) ==
    id \o <<"_">> \o PyStr(seed) \o <<"_">> \o ZeroPad(count, 5) \o PngSuffix

\* line 424: f"grid-{grid_count:04}.png"
GridName(count) ==
    <<"g", "r", "i", "d", "-">> \o ZeroPad(count, 4) \o PngSuffix

\* rearrange(torch.stack(all_samples, 0), "n b c h w -> (n b) c h w")
RECURSIVE Flatten(_)
Flatten(batches) ==
    IF Len(batches) = 0 THEN <<>>
    ELSE batches[1] \o Flatten(Tail(batches))

(***************************************************************************)
(* State                                                                   *)
(***************************************************************************)
VARIABLES
    opt,                    \* the parsed command line
    pc,                     \* position of main()
    error,                  \* the exception that ended main(), or "none"
    run,                    \* number of the current invocation
    outdir,                 \* os.listdir(outpath)
    samples_dir,            \* os.listdir(sample_path)
    data,                   \* the prompt groups
    group,                  \* index into data of the group being processed
    base_count,
    grid_count,
    all_samples,
    promptId,
    promptSeed,
    promptScale,
    promptDdimSteps,
    promptString,
    imagesCreated,
    loopIteration,
    PL_GLOBAL_SEED,         \* os.environ["PL_GLOBAL_SEED"], as a number
    x_checked_image_torch,  \* the accepted batch being written
    saved,                  \* images of that batch already written
    start_code,             \* the fixed start code, or None
    \* history, not read by the program
    startListing,           \* outdir when this invocation started
    imageLog,               \* image files written by this invocation
    gridLog,                \* grid files written by this invocation
    tries,                  \* sampler calls since imagesCreated last changed
    rejectedSeed,           \* seed of the attempt just rejected, or -1
    skipped,                \* slots of this request given up
    handed,                 \* batches of this request handed to the output
    prevImages,             \* imageLog of the previous invocation
    acceptedLog,            \* batches that passed the filter, in order
    requests                \* lines handed to the parser, in order

vars == <<opt, pc, error, run, outdir, samples_dir, data, group, base_count,
          grid_count, all_samples, promptId, promptSeed, promptScale,
          promptDdimSteps, promptString, imagesCreated, loopIteration,
          PL_GLOBAL_SEED, x_checked_image_torch, saved, startListing,
          imageLog, gridLog, tries, rejectedSeed, skipped, handed,
          start_code, prevImages, acceptedLog, requests>>

fsVars == <<outdir, samples_dir>>
requestVars == <<promptId, promptSeed, promptScale, promptDdimSteps,
                 promptString>>
loopVars == <<imagesCreated, loopIteration>>
countVars == <<base_count, grid_count>>
histVars == <<startListing, imageLog, gridLog, tries, rejectedSeed, skipped,
              handed>>

\* the locals of main() before it has assigned them
Fresh ==
    /\ error = "none"
    /\ data = <<>>
    /\ group = 1
    /\ base_count = 0
    /\ grid_count = 0
    /\ all_samples = <<>>
    /\ promptId = None
    /\ promptSeed = None
    /\ promptScale = 0
    /\ promptDdimSteps = 0
    /\ promptString = None
    /\ imagesCreated = 0
    /\ loopIteration = 0
    /\ PL_GLOBAL_SEED = 0
    /\ x_checked_image_torch = <<>>
    /\ saved = 0
    /\ startListing = {}
    /\ imageLog = <<>>
    /\ gridLog = <<>>
    /\ tries = 0
    /\ rejectedSeed = -1
    /\ skipped = 0
    /\ handed = 0
    /\ start_code = None
    /\ acceptedLog = <<>>
    /\ requests = <<>>

Init ==
    /\ opt \in CommandLines
    /\ pc = "start"
    /\ run = 1
    /\ outdir = {}
    /\ samples_dir = {}
    /\ prevImages = <<>>
    /\ Fresh

(***************************************************************************)
(* main()                                                                  *)
(***************************************************************************)
\* fault: the loop runs one turn too many
LoopConditionInclusive(created, n_iter) == created <= n_iter

\* line 351: while imagesCreated < opt.n_iter
LoopCondition(created, n_iter) == created < n_iter

\* fault: the budget is tested with >= one later
BudgetExhaustedLate(iteration) == iteration > maxNotSafeForWorkTries + 1

\* line 354: if loopIteration > maxNotSafeForWorkTries
BudgetExhausted(iteration) == iteration > maxNotSafeForWorkTries

\* fault: the counter is not advanced
NextCountStuck(count) == count

\* lines 407 and 425: base_count += 1, grid_count += 1
NextCount(count) == count + 1

\* lines 261-310: seed, create the directories, read the prompts, derive the
\* counters from the directory listings
Start ==
    /\ pc = "start"
    /\ PL_GLOBAL_SEED' \in RandomSeeds
    /\ outdir' = outdir \cup {SamplesEntry}
    /\ data' = IF opt.from_file
               THEN chunk(opt.lines, opt.n_samples)
               ELSE << [i \in 1..opt.n_samples |-> opt.prompt] >>
    /\ base_count' = Cardinality(samples_dir)
    /\ grid_count' = Cardinality(outdir') - 1
    /\ all_samples' = <<>>
    /\ group' = 1
    /\ start_code' = IF opt.fixed_code THEN Randn(PL_GLOBAL_SEED') ELSE None
    /\ startListing' = outdir
    /\ pc' = "for"
    /\ UNCHANGED <<opt, prevImages, acceptedLog, requests, error, run, samples_dir, requestVars, loopVars,
                   x_checked_image_torch, saved, imageLog, gridLog, tries,
                   rejectedSeed, skipped, handed>>

\* line 312 with data exhausted, lines 427-430
Finish ==
    /\ pc = "for"
    /\ group > Len(data)
    /\ pc' = "done"
    /\ UNCHANGED <<opt, start_code, prevImages, acceptedLog, requests, error, run, fsVars, data, group, countVars,
                   all_samples, requestVars, loopVars, PL_GLOBAL_SEED,
                   x_checked_image_torch, saved, histVars>>

\* lines 317-320: the group's first line is empty or a comment
SkipLine ==
    /\ pc = "for"
    /\ group <= Len(data)
    /\ IsSkippedLine(data[group][1])
    /\ group' = group + 1
    /\ UNCHANGED <<opt, start_code, prevImages, acceptedLog, requests, pc, error, run, fsVars, data, countVars, all_samples,
                   requestVars, loopVars, PL_GLOBAL_SEED,
                   x_checked_image_torch, saved, histVars>>

\* lines 322-349: parse the group's first line into the request
ParseLine ==
    /\ pc = "for"
    /\ group <= Len(data)
    /\ ~IsSkippedLine(data[group][1])
    /\ LET r == ParsePromptLine(data[group][1], opt)
       IN  IF r.error = "none"
           THEN /\ promptId' = r.promptId
                /\ promptSeed' = r.promptSeed
                /\ promptScale' = r.promptScale
                /\ promptDdimSteps' = r.promptDdimSteps
                /\ promptString' = r.promptString
                /\ imagesCreated' = 0
                /\ loopIteration' = 0
                /\ tries' = 0
                /\ rejectedSeed' = -1
                /\ skipped' = 0
                /\ handed' = 0
                /\ pc' = "while"
                /\ UNCHANGED error
           ELSE /\ error' = r.error
                /\ pc' = "aborted"
                /\ UNCHANGED <<requestVars, loopVars, tries, rejectedSeed,
                               skipped, handed>>
    /\ requests' = Append(requests, data[group][1])
    /\ UNCHANGED <<opt, start_code, prevImages, acceptedLog, run, fsVars,
                   data, group, countVars, all_samples,
                   PL_GLOBAL_SEED, x_checked_image_torch, saved,
                   startListing, imageLog, gridLog>>

\* line 351 false: the while loop is left
ExitLoop ==
    /\ pc = "while"
    /\ ~LoopCondition(imagesCreated, opt.n_iter)
    /\ pc' = "grid"
    /\ UNCHANGED <<opt, start_code, prevImages, acceptedLog, requests, error, run, fsVars, data, group, countVars,
                   all_samples, requestVars, loopVars, PL_GLOBAL_SEED,
                   x_checked_image_torch, saved, histVars>>

\* lines 354-358: too many rejections, count the slot without sampling
GiveUp ==
    /\ pc = "while"
    /\ LoopCondition(imagesCreated, opt.n_iter)
    /\ BudgetExhausted(loopIteration)
    /\ imagesCreated' = imagesCreated + 1
    /\ skipped' = skipped + 1
    /\ tries' = 0
    /\ rejectedSeed' = -1
    /\ UNCHANGED <<opt, start_code, prevImages, acceptedLog, requests, pc, error, run, fsVars, data, group, countVars,
                   all_samples, requestVars, loopIteration, PL_GLOBAL_SEED,
                   x_checked_image_torch, saved, startListing, imageLog,
                   gridLog, handed>>

\* seed_all(seed), lines 36-47: the value ends up in PL_GLOBAL_SEED
seed_all(seed) ==
    PL_GLOBAL_SEED' = seed

\* lines 360-365: reseed before the attempt
Seed ==
    /\ pc = "while"
    /\ LoopCondition(imagesCreated, opt.n_iter)
    /\ ~BudgetExhausted(loopIteration)
    /\ IF promptSeed = None \/ Len(promptSeed) = 0
       THEN /\ \E seed \in RandomSeeds : seed_all(seed)
            /\ pc' = "sample"
            /\ UNCHANGED error
       ELSE LET r == PyInt(promptSeed)
            IN  IF r.ok
                THEN /\ seed_all(r.val)
                     /\ pc' = "sample"
                     /\ UNCHANGED error
                ELSE /\ error' = "ValueError"
                     /\ pc' = "aborted"
                     /\ UNCHANGED PL_GLOBAL_SEED
    /\ UNCHANGED <<opt, start_code, prevImages, acceptedLog, requests, run, fsVars, data, group, countVars, all_samples,
                   requestVars, loopVars, x_checked_image_torch, saved,
                   histVars>>

\* lines 367-397: sample, decode, classify; a flagged batch is dropped and
\* counted as a rejection, a clean one goes on to be written
Sample ==
    /\ pc = "sample"
    /\ \E nsfw \in [1..opt.n_samples -> BOOLEAN] :
          LET x_T == InitialNoise(start_code, PL_GLOBAL_SEED)
              pixels == Pixels(x_T, promptString, promptScale,
                               promptDdimSteps)
              x_samples_ddim == DecodedBatch(group, imagesCreated, pixels,
                                             nsfw)
          IN  IF is_not_safe_for_work_image(x_samples_ddim)
              THEN /\ loopIteration' = loopIteration + 1
                   /\ rejectedSeed' = PL_GLOBAL_SEED
                   /\ pc' = "while"
                   /\ UNCHANGED <<x_checked_image_torch, saved, handed,
                                  acceptedLog>>
              ELSE /\ x_checked_image_torch' = x_samples_ddim
                   /\ saved' = 0
                   /\ rejectedSeed' = -1
                   /\ handed' = handed + 1
                   /\ acceptedLog' = Append(acceptedLog, x_samples_ddim)
                   /\ pc' = "save"
                   /\ UNCHANGED loopIteration
    /\ tries' = tries + 1
    /\ UNCHANGED <<opt, start_code, prevImages, requests, error, run, fsVars, data, group, countVars,
                   all_samples, requestVars, imagesCreated, PL_GLOBAL_SEED,
                   startListing, imageLog, gridLog, skipped>>

\* lines 399-407, one turn of the for loop: write one image of the batch.
\* used_seed is PL_GLOBAL_SEED, which nothing changes since the seeding.
SaveImage ==
    /\ pc = "save"
    /\ ~opt.skip_save
    /\ saved < Len(x_checked_image_torch)
    /\ LET name == ImageName(promptId, PL_GLOBAL_SEED, base_count)
       IN  /\ outdir' = outdir \cup {name}
           /\ imageLog' = Append(imageLog,
                                 [name  |-> name,
                                  count |-> base_count,
                                  image |-> x_checked_image_torch[saved + 1]])
    /\ base_count' = NextCount(base_count)
    /\ saved' = saved + 1
    /\ UNCHANGED <<opt, start_code, prevImages, acceptedLog, requests, pc, error, run, samples_dir, data, group, grid_count,
                   all_samples, requestVars, loopVars, PL_GLOBAL_SEED,
                   x_checked_image_torch, startListing, gridLog, tries,
                   rejectedSeed, skipped, handed>>

\* lines 409-412: keep the batch for the grid and count the image
CountImage ==
    /\ pc = "save"
    /\ opt.skip_save \/ saved = Len(x_checked_image_torch)
    /\ all_samples' = IF ~opt.skip_grid
                      THEN KeepForGrid(all_samples, x_checked_image_torch)
                      ELSE all_samples
    /\ imagesCreated' = imagesCreated + 1
    /\ tries' = 0
    /\ pc' = "while"
    /\ UNCHANGED <<opt, start_code, prevImages, acceptedLog, requests, error, run, fsVars, data, group, countVars,
                   requestVars, loopIteration, PL_GLOBAL_SEED,
                   x_checked_image_torch, saved, startListing, imageLog,
                   gridLog, rejectedSeed, skipped, handed>>

\* lines 414-425: write the grid of everything accepted so far;
\* torch.stack raises RuntimeError on an empty list
SaveGrid ==
    /\ pc = "grid"
    /\ IF opt.skip_grid
       THEN /\ pc' = "for"
            /\ group' = group + 1
            /\ UNCHANGED <<error, outdir, grid_count, gridLog>>
       ELSE IF Len(all_samples) = 0
       THEN /\ error' = "RuntimeError"
            /\ pc' = "aborted"
            /\ UNCHANGED <<group, outdir, grid_count, gridLog>>
       ELSE /\ outdir' = outdir \cup {GridName(grid_count)}
            /\ gridLog' = Append(gridLog,
                                 [name   |-> GridName(grid_count),
                                  count  |-> grid_count,
                                  accepted |-> Len(acceptedLog),
                                  images |-> Flatten(all_samples)])
            /\ grid_count' = NextCount(grid_count)
            /\ pc' = "for"
            /\ group' = group + 1
            /\ UNCHANGED error
    /\ UNCHANGED <<opt, start_code, prevImages, acceptedLog, requests, run, samples_dir, data, base_count, all_samples,
                   requestVars, loopVars, PL_GLOBAL_SEED,
                   x_checked_image_torch, saved, startListing, imageLog,
                   tries, rejectedSeed, skipped, handed>>

\* the same command line is run again on the same output directory
Relaunch ==
    /\ pc \in {"done", "aborted"}
    /\ run < MaxRuns
    /\ run' = run + 1
    /\ pc' = "start"
    /\ error' = "none"
    /\ data' = <<>>
    /\ group' = 1
    /\ base_count' = 0
    /\ grid_count' = 0
    /\ all_samples' = <<>>
    /\ promptId' = None
    /\ promptSeed' = None
    /\ promptScale' = 0
    /\ promptDdimSteps' = 0
    /\ promptString' = None
    /\ imagesCreated' = 0
    /\ loopIteration' = 0
    /\ PL_GLOBAL_SEED' = 0
    /\ x_checked_image_torch' = <<>>
    /\ saved' = 0
    /\ startListing' = {}
    /\ imageLog' = <<>>
    /\ gridLog' = <<>>
    /\ tries' = 0
    /\ rejectedSeed' = -1
    /\ skipped' = 0
    /\ handed' = 0
    /\ start_code' = None
    /\ prevImages' = imageLog
    /\ acceptedLog' = <<>>
    /\ requests' = <<>>
    /\ UNCHANGED <<opt, fsVars>>

\* one step of the script
Next ==
    \/ Start
    \/ Finish
    \/ SkipLine
    \/ ParseLine
    \/ ExitLoop
    \/ GiveUp
    \/ Seed
    \/ Sample
    \/ SaveImage
    \/ CountImage
    \/ SaveGrid

\* one invocation of the script
Spec == Init /\ [][Next]_vars

\* the statements of the while loop, lines 351-412
LoopStep == ExitLoop \/ GiveUp \/ Seed \/ Sample \/ SaveImage \/ CountImage

\* inside the loop the interpreter always executes the next statement
FairSpec == Spec /\ WF_vars(LoopStep)

\* up to MaxRuns invocations on the same output directory
RunsNext == Next \/ Relaunch

RunsSpec == Init /\ [][RunsNext]_vars

\* the parser alone: the script up to the end of the parsing of one line
ParseInit ==
    /\ opt \in ParseCommandLines
    /\ pc = "start"
    /\ run = 1
    /\ outdir = {}
    /\ samples_dir = {}
    /\ prevImages = <<>>
    /\ Fresh

ParseNext == Start \/ SkipLine \/ ParseLine \/ Finish

ParseSpec == ParseInit /\ [][ParseNext]_vars

\* command lines whose requests all carry an explicit seed, with and
\* without --fixed_code, --seed left at its default
SeededCommandLines ==
    [n_iter     : 0..MaxIter,
     n_samples  : 1..MaxBatch,
     skip_grid  : BOOLEAN,
     skip_save  : {FALSE},
     fixed_code : BOOLEAN,
     scale      : {DefaultScale},
     ddim_steps : {DefaultDdimSteps},
     from_file  : {TRUE},
     prompt     : {RawLine},
     lines      : {<<FixedSeedLine, EmptyLine, FixedSeedLine>>}]

SeededInit ==
    /\ opt \in SeededCommandLines
    /\ pc = "start"
    /\ run = 1
    /\ outdir = {}
    /\ samples_dir = {}
    /\ prevImages = <<>>
    /\ Fresh

\* up to MaxRuns invocations of such a command line
SeededSpec == SeededInit /\ [][RunsNext]_vars

TypeOK ==
    /\ pc \in {"start", "for", "while", "sample", "save", "grid", "done",
                "aborted"}
    /\ error \in {"none", "ValueError", "RuntimeError"}
    /\ run \in 1..MaxRuns
    /\ imagesCreated \in 0..MaxIter
    /\ tries \in 0..(maxNotSafeForWorkTries + 1)
    /\ skipped + handed \in 0..MaxIter
    /\ loopIteration \in 0..(maxNotSafeForWorkTries + 1)

(***************************************************************************)
(* Properties                                                              *)
(***************************************************************************)
InRequest == pc \in {"while", "sample", "save", "grid"}

\* the line the for loop is at
CurrentLine == data[group][1]

NoneFlagged(images) == \A i \in DOMAIN images : ~images[i].nsfw

\* C1: no image of a batch in which the classifier flagged an image is ever
\* written as an image file, kept for the grid or drawn into a grid file;
\* only batches without a flagged image are handed to the output step, and
\* each hand-over raises imagesCreated by exactly one (once its writing is
\* finished), the other increments being the slots given up.
C1_RejectedNeverOutput ==
    /\ \A k \in DOMAIN imageLog : ~imageLog[k].image.nsfw
    /\ \A b \in DOMAIN all_samples : NoneFlagged(all_samples[b])
    /\ \A k \in DOMAIN gridLog : NoneFlagged(gridLog[k].images)
    /\ pc = "save" => NoneFlagged(x_checked_image_torch)
    /\ imagesCreated + (IF pc = "save" THEN 1 ELSE 0) = handed + skipped

\* C1 witness: after a rejection, a two-image batch was accepted, written
\* and kept for the grid
C1_Witness ==
    /\ loopIteration > 0
    /\ handed > 0
    /\ opt.n_samples = 2
    /\ Len(imageLog) >= 2
    /\ Len(all_samples) > 0
    /\ pc = "while"

\* C2: between two increments of imagesCreated the sampler is invoked at
\* most maxNotSafeForWorkTries + 1 = 11 times.
C2_AttemptsBounded == tries <= maxNotSafeForWorkTries + 1

\* C2 witness: the 11th sampler call for the second slot of a request
C2_Witness ==
    /\ tries = maxNotSafeForWorkTries + 1
    /\ imagesCreated >= 1

\* the request's seed is unset, empty or an integer
SeedIsUsable ==
    promptSeed = None \/ Len(promptSeed) = 0 \/ PyInt(promptSeed).ok

\* C3: for every n_iter >= 0 and every sequence of classifier verdicts the
\* generation loop of a request (whose seed is unset or an integer) is
\* eventually left, imagesCreated equals n_iter when it is left, and the
\* sampler is never reached once the retry counter has exceeded the bound.
C3_LoopTerminates ==
    /\ [](pc = "grid" => imagesCreated = opt.n_iter)
    /\ [](pc = "sample" => loopIteration <= maxNotSafeForWorkTries)
    /\ ((pc = "while" /\ SeedIsUsable) ~> (pc = "grid"))

\* C3 witness: every attempt was rejected and the loop was still left, all
\* slots given up
C3_Witness ==
    /\ pc = "grid"
    /\ opt.n_iter = MaxIter
    /\ skipped = opt.n_iter
    /\ loopIteration = maxNotSafeForWorkTries + 1

\* C4 (as claimed): the attempt that follows a rejection is not seeded with
\* the request's explicit seed again.
C4_FreshSeedAfterRejection ==
    (/\ pc = "sample"
     /\ rejectedSeed # -1
     /\ promptSeed # None
     /\ Len(promptSeed) > 0)
    => PL_GLOBAL_SEED # rejectedSeed

\* C5 (as claimed): with n_iter = 2, a request whose retry budget was
\* exhausted ends with exactly one slot given up and one batch produced.
C5_OneSlotSkipped ==
    (/\ pc = "grid"
     /\ opt.n_iter = 2
     /\ loopIteration > maxNotSafeForWorkTries)
    => (skipped = 1 /\ handed = 1)

\* C6 (as claimed): no image file and no grid file is written under a name
\* that was in the output directory when the invocation started.
C6_AppendOnly ==
    /\ \A k \in DOMAIN imageLog : imageLog[k].name \notin startListing
    /\ \A k \in DOMAIN gridLog : gridLog[k].name \notin startListing

\* the counters of a log are consecutive, end just below `counter`, and no
\* two entries have the same file name
Consecutive(log, counter) ==
    /\ \A k \in DOMAIN log : log[k].count = log[1].count + (k - 1)
    /\ Len(log) > 0 => counter = log[Len(log)].count + 1
    /\ \A j, k \in DOMAIN log : j < k => log[j].name # log[k].name

\* C7: within one run base_count grows by exactly one per image file and
\* grid_count by exactly one per grid file, neither is reset between
\* requests or prompt groups, and no two files of a kind share a counter
\* or a name.
C7_CountersMonotonic ==
    /\ Consecutive(imageLog, base_count)
    /\ Consecutive(gridLog, grid_count)

\* C7 witness: image and grid files written for two prompt groups
C7_Witness ==
    /\ Len(imageLog) >= 3
    /\ Len(gridLog) >= 2
    /\ group > 2

\* C8 (as claimed): a request all of whose slots were given up does not end
\* the run with an error.
C8_ExhaustionNotFatal ==
    (/\ skipped > 0
     /\ handed = 0
     /\ imagesCreated = opt.n_iter)
    => pc # "aborted"

\* digits, or digits "." digit: a number with at most one decimal
IsNumber(f) ==
    \/ PyInt(f).ok
    \/ /\ Len(f) >= 3
       /\ f[Len(f) - 1] = "."
       /\ PyInt(SubSeq(f, 1, Len(f) - 2)).ok
       /\ IsDigit(f[Len(f)])

\* the value of a number, in tenths
NumberTenths(f) ==
    IF PyInt(f).ok THEN 10 * PyInt(f).val
    ELSE 10 * PyInt(SubSeq(f, 1, Len(f) - 2)).val + DigitVal(f[Len(f)])

\* a 5-field line whose seed, scale or steps field is not empty and not a
\* number
MalformedDirective(line) ==
    LET f == PySplit(line)
    IN  /\ Len(f) = 5
        /\ \E k \in 2..4 : Len(f[k]) > 0 /\ ~IsNumber(f[k])

\* C9 (as claimed): a 5-field line with an unparseable seed, scale or steps
\* field does not stop the run, and the unparseable scale or steps falls
\* back to the command line's value.
C9_MalformedNeverStops ==
    (/\ pc \in {"while", "sample", "save", "grid", "aborted"}
     /\ group <= Len(data)
     /\ MalformedDirective(CurrentLine))
    => /\ pc # "aborted"
       /\ LET f == PySplit(CurrentLine)
          IN  /\ ~IsNumber(f[3]) => promptScale = opt.scale
              /\ ~IsNumber(f[4]) => promptDdimSteps = opt.ddim_steps

\* a 5-field line whose seed and steps are empty or integers and whose
\* scale is empty or a number
WellFormedDirective(line) ==
    LET f == PySplit(line)
    IN  /\ Len(f) = 5
        /\ Len(f[2]) = 0 \/ PyInt(f[2]).ok
        /\ Len(f[3]) = 0 \/ IsNumber(f[3])
        /\ Len(f[4]) = 0 \/ PyInt(f[4]).ok

\* C10 (as claimed): a well-formed 5-field line is parsed without error into
\* id = field 0, seed = field 1, scale = the number in field 2 or the default,
\* steps = the number in field 3 or the default, promptText = field 4.
C10_DirectiveFields ==
    (/\ pc \in {"while", "sample", "save", "grid", "aborted"}
     /\ group <= Len(data)
     /\ WellFormedDirective(CurrentLine))
    => LET f == PySplit(CurrentLine)
       IN  /\ error # "ValueError"
           /\ promptId = f[1]
           /\ promptSeed = f[2]
           /\ promptScale = IF Len(f[3]) = 0 THEN opt.scale
                             ELSE NumberTenths(f[3])
           /\ promptDdimSteps = IF Len(f[4]) = 0 THEN opt.ddim_steps
                                 ELSE PyInt(f[4]).val
           /\ promptString = f[5]

\* lines 319 as the specification words it: empty, or beginning with "#"
IsBlankOrComment(line) ==
    IF Len(line) = 0 THEN TRUE ELSE Head(line) = "#"

\* C11: a line that is not empty, does not begin with "#" and splits into
\* fewer than 5 fields is parsed in raw-text mode: id 000, seed unset,
\* scale and steps the command line's, promptText the whole line with its
\* delimiters.
C11_RawTextFallback ==
    (/\ pc \in {"while", "aborted"}
     /\ group <= Len(data)
     /\ ~IsBlankOrComment(CurrentLine)
     /\ Len(PySplit(CurrentLine)) < 5)
    => /\ pc = "while"
       /\ promptId = <<"0", "0", "0">>
       /\ promptSeed = None
       /\ promptScale = opt.scale
       /\ promptDdimSteps = opt.ddim_steps
       /\ promptString = CurrentLine

\* C11 witness: a line with three delimiters was parsed as a raw prompt
C11_Witness ==
    /\ pc = "while"
    /\ Len(PySplit(CurrentLine)) = 4
    /\ FindDelimiter(promptString, 1) > 0
    /\ promptId = <<"0", "0", "0">>

\* C12: passing an empty line or a line beginning with "#" produces no
\* request and changes nothing but the position in the file: no sampler or
\* classifier call, no reseeding, no file written, base_count, grid_count
\* and all_samples as they were.
C12_SkippedLineNoEffect ==
    [][(/\ pc = "for"
        /\ group <= Len(data)
        /\ IsBlankOrComment(CurrentLine))
       => (/\ pc' = "for"
           /\ group' = group + 1
           /\ UNCHANGED <<PL_GLOBAL_SEED, outdir, samples_dir, base_count,
                          grid_count, all_samples, requestVars, loopVars,
                          tries, handed, imageLog, gridLog>>)]_vars

\* C12 witness: an empty line was passed after a request had written files
C12_Witness ==
    /\ pc = "for"
    /\ group > 1
    /\ group - 1 <= Len(data)
    /\ data[group - 1][1] = EmptyLine
    /\ Len(imageLog) > 0
    /\ Len(all_samples) > 0

\* C13 (as claimed): every image file is written into the samples
\* directory, the one whose listing initialises base_count, and every grid
\* file into the output directory.
C13_ImagePaths ==
    /\ \A k \in DOMAIN imageLog : imageLog[k].name \in samples_dir
    /\ \A k \in DOMAIN gridLog : gridLog[k].name \in outdir

\* C14 (as claimed): two invocations given the same requests with the same
\* explicit seeds produce the same images, with the fixed start code on or
\* off and --seed at its default: the image written for a slot of a request
\* has the pixels of the image written for that slot by the invocation
\* before.
C14_SameSeedsSameImages ==
    \A j \in DOMAIN prevImages : \A k \in DOMAIN imageLog :
        (/\ prevImages[j].image.group = imageLog[k].image.group
         /\ prevImages[j].image.slot = imageLog[k].image.slot
         /\ prevImages[j].image.index = imageLog[k].image.index)
        => prevImages[j].image.pixels = imageLog[k].image.pixels

\* the images of the first n batches of log, in order
RECURSIVE AcceptedImages(_, _)
AcceptedImages(log, n) ==
    IF n = 0 THEN <<>> ELSE AcceptedImages(log, n - 1) \o log[n]

\* C15: every grid file written holds, in arrival order, the images of all
\* the batches that had passed the filter in this run when it was written,
\* each once, and nothing else.
C15_GridIsAcceptedInOrder ==
    \A k \in DOMAIN gridLog :
        gridLog[k].images = AcceptedImages(acceptedLog, gridLog[k].accepted)

\* C15 witness: after a rejection, a grid was written from at least two
\* accepted batches of two different requests
C15_Witness ==
    /\ loopIteration > 0
    /\ \E k \in DOMAIN gridLog :
          /\ gridLog[k].accepted >= 2
          /\ gridLog[k].images[1].group
                # gridLog[k].images[Len(gridLog[k].images)].group

\* the lines of a file that are neither empty nor comments, in file order
RECURSIVE RequestLines(_)
RequestLines(lines) ==
    IF Len(lines) = 0 THEN <<>>
    ELSE IF IsBlankOrComment(Head(lines)) THEN RequestLines(Tail(lines))
    ELSE <<Head(lines)>> \o RequestLines(Tail(lines))

\* C16 (as claimed): in prompt-file mode, whatever the batch size, a run
\* that ends normally has parsed and run exactly the lines of the file that
\* are neither empty nor comments, in file order.
C16_EveryLineRun ==
    (pc = "done" /\ opt.from_file) => requests = RequestLines(opt.lines)

\* C17: a 5-field line that gives a request has its steps taken from the
\* command line when field 3 is empty and from field 3 otherwise, whatever
\* field 2 holds, and its scale taken from the command line when field 2 is
\* empty and from field 2 otherwise.
C17_StepsGuardedByOwnField ==
    (/\ pc = "while"
     /\ Len(PySplit(CurrentLine)) >= 5)
    => LET f == PySplit(CurrentLine)
       IN  /\ promptDdimSteps = IF Len(f[4]) = 0 THEN opt.ddim_steps
                                 ELSE PyInt(f[4]).val
           /\ promptScale = IF Len(f[3]) = 0 THEN opt.scale
                             ELSE 10 * PyInt(f[3]).val

\* C17 witness: a request from a line with an empty scale field and a steps
\* field that differs from the command line's steps
C17_Witness ==
    /\ pc = "while"
    /\ Len(PySplit(CurrentLine)) >= 5
    /\ Len(PySplit(CurrentLine)[3]) = 0
    /\ Len(PySplit(CurrentLine)[4]) > 0
    /\ promptScale = opt.scale
    /\ promptDdimSteps # opt.ddim_steps

\* C18 (as claimed): a 5-field line whose scale field is a decimal number
\* that is not an integer, its steps field being empty or an integer, gives
\* a request with that scale and raises no error.
C18_DecimalScaleAccepted ==
    (/\ pc \in {"while", "aborted"}
     /\ group <= Len(data)
     /\ Len(PySplit(CurrentLine)) = 5
     /\ IsNumber(PySplit(CurrentLine)[3])
     /\ ~PyInt(PySplit(CurrentLine)[3]).ok
     /\ Len(PySplit(CurrentLine)[4]) = 0 \/ PyInt(PySplit(CurrentLine)[4]).ok)
    => /\ pc = "while"
       /\ error = "none"
       /\ promptScale = NumberTenths(PySplit(CurrentLine)[3])

=============================================================================
